---- MODULE Spec2Model ----
(***************************************************************************)
(* Per-turn decision pipeline of the wellbeing-agent backend:              *)
(*   - main.py: the /chat handler and its seven "agents";                  *)
(*   - orchestrator.py: Orchestrator.run (V12.1);                          *)
(*   - agents/*.py: the stand-alone agent classes (SafetyAgent, JoyAgent,  *)
(*     ResponseAgent).                                                     *)
(*                                                                         *)
(* Text.  A Python str is modelled as a sequence of characters, one        *)
(* element per Unicode code point.  A character is written as a TLA+       *)
(* string: an ASCII character as itself, a Vietnamese letter by its VNI    *)
(* spelling (base letter, then 6 circumflex, 7 horn, 8 breve, then the     *)
(* tone 1 acute, 2 grave, 3 hook, 4 tilde, 5 dot below; d9 is d with       *)
(* stroke).  Text("t{u75} t{u73}") is the five characters of "tu tu"       *)
(* with horn+dot-below and horn+hook on the u's.                           *)
(* {-} is the en dash and {*} the bullet of the support block.             *)
(***************************************************************************)
EXTENDS Integers, Sequences, FiniteSets, TLC

VARIABLES
    raw,            \* outcome of the structured-extraction call under way, None otherwise
    entry,          \* entry point serving the request: "chat", "Orchestrator", "agents"
    pc,             \* position of the request in its handler
    message,        \* the request's message (req.message / user_message)
    history,        \* the request's history: sequence of [role, content]
    insights,       \* result of the insight step (dict), None before it ran
    trend,          \* result of the trend step, None before it ran
    safety,         \* result of the safety step, None before it ran
    interventions,  \* text returned by the intervention step, None before it ran
    joy_mode,       \* joy decision of the turn, None before it was computed
    add_support,    \* support-block decision of the turn, None before it was computed
    sent,           \* what the generation call was given: [interventions, support_instruction]
    reply,          \* reply text returned by the generation step, None before
    memory          \* session store (memory.py): messages appended for the session

vars == << pc, raw, entry, message, history, insights, trend, safety, interventions,
           joy_mode, add_support, sent, reply, memory >>

None == "None"

-----------------------------------------------------------------------------
(* Text helpers *)

\* Characters of a literal: {..} groups the spelling of one non-ASCII character.
RECURSIVE TextFrom(_, _)
TextFrom(s, i) ==
    IF i > Len(s) THEN << >>
    ELSE IF SubSeq(s, i, i) = "{"
         THEN LET j == CHOOSE k \in (i + 1)..Len(s) :
                          /\ SubSeq(s, k, k) = "}"
                          /\ \A m \in (i + 1)..(k - 1) : SubSeq(s, m, m) # "}"
              IN  << SubSeq(s, i + 1, j - 1) >> \o TextFrom(s, j + 1)
         ELSE << SubSeq(s, i, i) >> \o TextFrom(s, i + 1)

Text(s) == TextFrom(s, 1)

UpperCase == "ABCDEFGHIJKLMNOPQRSTUVWXYZ"
LowerCase == "abcdefghijklmnopqrstuvwxyz"

\* str.lower() on the ASCII letters
LowerAscii ==
    [ch \in {SubSeq(UpperCase, i, i) : i \in 1..Len(UpperCase)} |->
        LET i == CHOOSE k \in 1..Len(UpperCase) : SubSeq(UpperCase, k, k) = ch
        IN  SubSeq(LowerCase, i, i)]

\* str.lower() on one character: the base letter is lowered, the marks stay
LowerChar(c) ==
    LET base == SubSeq(c, 1, 1)
    IN  IF base \in DOMAIN LowerAscii
        THEN LowerAscii[base] \o SubSeq(c, 2, Len(c))
        ELSE c

\* str.lower()
lower(t) == [i \in 1..Len(t) |-> LowerChar(t[i])]

\* kw in t
Contains(t, kw) ==
    \E i \in 0..(Len(t) - Len(kw)) : \A j \in 1..Len(kw) : t[i + j] = kw[j]

\* any(kw in t for kw in kws)
ContainsAny(t, kws) == \E k \in 1..Len(kws) : Contains(t, kws[k])

-----------------------------------------------------------------------------
(* Keyword lists of main.py *)

\* danger_keywords, src/main.py lines 368-377
danger_keywords ==
    << Text("t{u75} t{u73}"),
       Text("t{u75} s{a1}t"),
       Text("kh{o6}ng mu{o61}n s{o61}ng"),
       Text("khong muon song"),
       Text("kill myself"),
       Text("end my life"),
       Text("suicide"),
       Text("hurt myself") >>

\* relationship_violence, src/main.py lines 379-399
relationship_violence ==
    << Text("{d9}{a1}nh em"),
       Text("danh em"),
       Text("b{i5} {d9}{a1}nh"),
       Text("bi danh"),
       Text("{d9}{a1}nh tui"),
       Text("danh tui"),
       Text("anh {d9}{a1}nh em"),
       Text("anh danh em"),
       Text("anh {d9}{a1}nh tui"),
       Text("anh danh tui"),
       Text("b{a5}o l{u75}c"),
       Text("bao luc"),
       Text("hit me"),
       Text("hurt me"),
       Text("abused me"),
       Text("domestic violence"),
       Text("he hit me"),
       Text("he slapped me"),
       Text("he punched me") >>

\* celebration_keywords, src/main.py lines 756-776
celebration_keywords ==
    << Text("tr{u1}ng s{o61}"),
       Text("trung so"),
       Text("tr{u1}ng h{o5}c b{o63}ng"),
       Text("trung hoc bong"),
       Text("{d9}{u7}{o75}c h{o5}c b{o63}ng"),
       Text("duoc hoc bong"),
       Text("h{o5}c b{o63}ng"),
       Text("hoc bong"),
       Text("{d9}{a65}u visa"),
       Text("dau visa"),
       Text("{d9}{u7}{o75}c nh{a65}n"),
       Text("duoc nhan"),
       Text("passed the exam"),
       Text("pass the exam"),
       Text("got a scholarship"),
       Text("won the lottery"),
       Text("got the job"),
       Text("got an offer"),
       Text("accepted into") >>

\* negative_keywords, src/main.py lines 777-794
negative_keywords ==
    << Text("bu{o62}n"),
       Text("buon"),
       Text("stress"),
       Text("lo l{a81}ng"),
       Text("lo lang"),
       Text("kh{o6}ng mu{o61}n s{o61}ng"),
       Text("khong muon song"),
       Text("sad"),
       Text("anxious"),
       Text("depressed"),
       Text("b{i5} {d9}{a1}nh"),
       Text("bi danh"),
       Text("{d9}{a1}nh em"),
       Text("danh em"),
       Text("b{a5}o l{u75}c"),
       Text("bao luc") >>

\* negative_break_keywords, src/main.py lines 978-1005
negative_break_keywords ==
    << Text("bu{o62}n"),
       Text("buon"),
       Text("kh{o1}c"),
       Text("khoc"),
       Text("{d9}au"),
       Text("dau"),
       Text("b{i5} {d9}{a1}nh"),
       Text("bi danh"),
       Text("{d9}{a1}nh em"),
       Text("danh em"),
       Text("{d9}{a1}nh tui"),
       Text("danh tui"),
       Text("b{a5}o l{u75}c"),
       Text("bao luc"),
       Text("hurt me"),
       Text("hit me"),
       Text("abused me"),
       Text("he hit me"),
       Text("he slapped me"),
       Text("he punched me"),
       Text("kh{o6}ng mu{o61}n s{o61}ng"),
       Text("khong muon song"),
       Text("t{u75} t{u73}"),
       Text("t{u75} s{a1}t"),
       Text("tu tu"),
       Text("tu sat") >>

-----------------------------------------------------------------------------
(* Keyword lists of agents/safety_agent.py and agents/joy_agent.py *)

\* danger_keywords, src/agents/safety_agent.py lines 18-21
SafetyAgent_danger_keywords ==
    << Text("t{u75} t{u73}"),
       Text("t{u75} s{a1}t"),
       Text("kh{o6}ng mu{o61}n s{o61}ng"),
       Text("kill myself"),
       Text("end my life"),
       Text("suicide"),
       Text("hurt myself") >>

\* violence_keywords, src/agents/safety_agent.py lines 23-25
SafetyAgent_violence_keywords ==
    << Text("{d9}{a1}nh"),
       Text("bi danh"),
       Text("anh danh em"),
       Text("hit me"),
       Text("abuse"),
       Text("violence"),
       Text("hurt me") >>

\* CELEBRATION_KEYWORDS, src/agents/joy_agent.py lines 14-19
JoyAgent_CELEBRATION_KEYWORDS ==
    << Text("tr{u1}ng"),
       Text("trung"),
       Text("h{o5}c b{o63}ng"),
       Text("hoc bong"),
       Text("{d9}{a65}u"),
       Text("pass"),
       Text("passed"),
       Text("got the job"),
       Text("scholarship"),
       Text("offer"),
       Text("accepted"),
       Text("tr{u1}ng s{o61}"),
       Text("{a8}n m{u72}ng"),
       Text("celebrate") >>

\* NEGATIVE_BREAK, src/agents/joy_agent.py lines 21-23
JoyAgent_NEGATIVE_BREAK ==
    << Text("bu{o62}n"),
       Text("sad"),
       Text("stress"),
       Text("kh{o6}ng mu{o61}n s{o61}ng"),
       Text("hurt"),
       Text("{d9}{a1}nh") >>

-----------------------------------------------------------------------------
(* Keyword lists of orchestrator.py *)

\* UOA_HINTS, src/orchestrator.py lines 71-81
UOA_HINTS ==
    << Text("university of adelaide"),
       Text("uofa"),
       Text("adelaide.edu.au"),
       Text("myadelaide"),
       Text("ask adelaide"),
       Text("hub central"),
       Text("hubcentral"),
       Text("student hub"),
       Text("north terrace") >>

\* ACADEMIC_ADVICE_KEYWORDS, src/orchestrator.py lines 83-113
ACADEMIC_ADVICE_KEYWORDS ==
    << Text("c{o61} v{a61}n"),
       Text("co van"),
       Text("h{o5}c v{u5}"),
       Text("hoc vu"),
       Text("ch{o5}n m{o6}n"),
       Text("chon mon"),
       Text("l{o65} tr{i2}nh"),
       Text("lo trinh"),
       Text("r{o71}t m{o6}n"),
       Text("rot mon"),
       Text("nguy c{o7} r{o71}t"),
       Text("deadline"),
       Text("qu{a1} t{a3}i"),
       Text("qua tai"),
       Text("h{o5}c kh{o6}ng k{i5}p"),
       Text("hoc khong kip"),
       Text("c{a62}n h{o64} tr{o75} h{o5}c"),
       Text("can ho tro hoc"),
       Text("support h{o5}c"),
       Text("academic advisor"),
       Text("academic advising"),
       Text("course plan"),
       Text("program advice"),
       Text("enrol"),
       Text("enrollment"),
       Text("failed a course"),
       Text("struggling with study") >>

-----------------------------------------------------------------------------
(* Sequence helpers *)

\* xs[-n:]
LastN(xs, n) == SubSeq(xs, IF Len(xs) > n THEN Len(xs) - n + 1 ELSE 1, Len(xs))

\* sep.join(ts)
RECURSIVE Join(_, _)
Join(ts, sep) ==
    IF Len(ts) = 0 THEN << >>
    ELSE IF Len(ts) = 1 THEN ts[1]
    ELSE ts[1] \o sep \o Join(Tail(ts), sep)

\* [f(m) for m in ms if m.role == role]
ContentsOf(ms, role) ==
    LET picked == SelectSeq(ms, LAMBDA m : m.role = role)
    IN  [i \in 1..Len(picked) |-> picked[i].content]

-----------------------------------------------------------------------------
(* main.py: constants *)

\* ADELAIDE_SUPPORT: the literal block, its heading and its last entry (the
\* block is an opaque constant; the entries in between are left out)
ADELAIDE_SUPPORT ==
    Text("\nUniversity of Adelaide {-} Student Wellbeing Support\n\n")
        \o Text("{*} Emergency (Australia-wide)\n")
        \o Text("  Call 000 for urgent emergencies.\n")

\* user_texts[-6:] of is_celebration_context
CelebrationWindow == 6

-----------------------------------------------------------------------------
(* main.py: the safety agent *)

\* run_safety_agent(message, insights)
\* run_safety_agent with the violence branch returning the self-harm flags
run_safety_agent_violence_flags_swapped(msg_in, ins) ==
    LET msg == lower(msg_in) IN
    IF ContainsAny(msg, danger_keywords)
    THEN [escalate |-> TRUE, reason |-> "Self-harm keywords detected",
          override_risk_level |-> "high", self_harm |-> TRUE, violence |-> FALSE]
    ELSE IF ContainsAny(msg, relationship_violence)
    THEN [escalate |-> TRUE, reason |-> "Relationship / physical violence detected",
          override_risk_level |-> "high", self_harm |-> TRUE, violence |-> FALSE]
    ELSE IF ins.risk_level = "high"
    THEN [escalate |-> TRUE, reason |-> "Insight agent assessed high risk",
          override_risk_level |-> "high", self_harm |-> FALSE, violence |-> FALSE]
    ELSE [escalate |-> FALSE, reason |-> "",
          override_risk_level |-> None, self_harm |-> FALSE, violence |-> FALSE]

\* run_safety_agent escalating on medium insight risk as well
run_safety_agent_escalates_medium(msg_in, ins) ==
    LET msg == lower(msg_in) IN
    IF ContainsAny(msg, danger_keywords)
    THEN [escalate |-> TRUE, reason |-> "Self-harm keywords detected",
          override_risk_level |-> "high", self_harm |-> TRUE, violence |-> FALSE]
    ELSE IF ContainsAny(msg, relationship_violence)
    THEN [escalate |-> TRUE, reason |-> "Relationship / physical violence detected",
          override_risk_level |-> "high", self_harm |-> FALSE, violence |-> TRUE]
    ELSE IF ins.risk_level \in {"medium", "high"}
    THEN [escalate |-> TRUE, reason |-> "Insight agent assessed high risk",
          override_risk_level |-> "high", self_harm |-> FALSE, violence |-> FALSE]
    ELSE [escalate |-> FALSE, reason |-> "",
          override_risk_level |-> None, self_harm |-> FALSE, violence |-> FALSE]

\* run_safety_agent with the violence list checked before the self-harm list
run_safety_agent_violence_first(msg_in, ins) ==
    LET msg == lower(msg_in) IN
    IF ContainsAny(msg, relationship_violence)
    THEN [escalate |-> TRUE, reason |-> "Relationship / physical violence detected",
          override_risk_level |-> "high", self_harm |-> FALSE, violence |-> TRUE]
    ELSE IF ContainsAny(msg, danger_keywords)
    THEN [escalate |-> TRUE, reason |-> "Self-harm keywords detected",
          override_risk_level |-> "high", self_harm |-> TRUE, violence |-> FALSE]
    ELSE IF ins.risk_level = "high"
    THEN [escalate |-> TRUE, reason |-> "Insight agent assessed high risk",
          override_risk_level |-> "high", self_harm |-> FALSE, violence |-> FALSE]
    ELSE [escalate |-> FALSE, reason |-> "",
          override_risk_level |-> None, self_harm |-> FALSE, violence |-> FALSE]

run_safety_agent(msg_in, ins) ==
    LET msg == lower(msg_in) IN
    IF ContainsAny(msg, danger_keywords)
    THEN [escalate |-> TRUE, reason |-> "Self-harm keywords detected",
          override_risk_level |-> "high", self_harm |-> TRUE, violence |-> FALSE]
    ELSE IF ContainsAny(msg, relationship_violence)
    THEN [escalate |-> TRUE, reason |-> "Relationship / physical violence detected",
          override_risk_level |-> "high", self_harm |-> FALSE, violence |-> TRUE]
    ELSE IF ins.risk_level = "high"
    THEN [escalate |-> TRUE, reason |-> "Insight agent assessed high risk",
          override_risk_level |-> "high", self_harm |-> FALSE, violence |-> FALSE]
    ELSE [escalate |-> FALSE, reason |-> "",
          override_risk_level |-> None, self_harm |-> FALSE, violence |-> FALSE]

-----------------------------------------------------------------------------
(* main.py: the intervention agent *)

\* run_intervention_agent returns "" before calling the collaborator
InterventionSkipped(ins) ==
    \/ ins.positive_event /\ ins.risk_level = "low"
    \/ ins.emotion \in {"joy", "neutral"}

-----------------------------------------------------------------------------
(* main.py: decisions of run_response_agent *)

\* is_celebration_context(all_msgs)
is_celebration_context(all_msgs) ==
    LET user_texts == ContentsOf(all_msgs, "user")
        text == lower(Join(LastN(user_texts, CelebrationWindow), Text(" ")))
    IN  IF Len(user_texts) = 0 THEN FALSE
        ELSE /\ ContainsAny(text, celebration_keywords)
             /\ ~ContainsAny(text, negative_keywords)

\* effective_risk = safety.get("override_risk_level") or risk_level
effective_risk(saf, ins) ==
    IF saf.override_risk_level # None THEN saf.override_risk_level ELSE ins.risk_level

\* the message matches negative_break_keywords
NegativeBreak(msg_in) == ContainsAny(lower(msg_in), negative_break_keywords)

\* the joy flow without the positive_event one-shot
JoyFlow_celebration_flow_only(msg_in, hist, ins, saf) ==
    LET all_msgs == hist \o << [role |-> "user", content |-> msg_in] >>
        celebration_flow == is_celebration_context(all_msgs)
    IN  IF effective_risk(saf, ins) \in {"medium", "high"} THEN FALSE
        ELSE IF NegativeBreak(msg_in) THEN FALSE
        ELSE celebration_flow

\* the joy flow without the negative_break_keywords test
JoyFlow_without_negative_break(msg_in, hist, ins, saf) ==
    LET all_msgs == hist \o << [role |-> "user", content |-> msg_in] >>
        celebration_flow == is_celebration_context(all_msgs)
        joy_one_shot == ins.positive_event /\ ins.risk_level = "low"
    IN  IF effective_risk(saf, ins) \in {"medium", "high"} THEN FALSE
        ELSE celebration_flow \/ joy_one_shot

\* JOY STICKY FLOW: the value of joy_mode
JoyFlow(msg_in, hist, ins, saf) ==
    LET all_msgs == hist \o << [role |-> "user", content |-> msg_in] >>
        celebration_flow == is_celebration_context(all_msgs)
        joy_one_shot == ins.positive_event /\ ins.risk_level = "low"
    IN  IF effective_risk(saf, ins) \in {"medium", "high"} THEN FALSE
        ELSE IF NegativeBreak(msg_in) THEN FALSE
        ELSE celebration_flow \/ joy_one_shot

\* add_support decided on the insight risk level alone
AddSupport_insight_risk_only(saf, ins, joy) ==
    IF joy THEN FALSE
    ELSE ins.risk_level = "high"

\* add_support also set for medium risk
AddSupport_medium_or_high(saf, ins, joy) ==
    IF joy THEN FALSE
    ELSE effective_risk(saf, ins) \in {"medium", "high"} \/ saf.escalate

\* add_support also set when the trend agent reports a worsening trend
AddSupport_on_worsening_trend(saf, ins, joy) ==
    IF joy THEN FALSE
    ELSE \/ effective_risk(saf, ins) = "high"
         \/ saf.escalate
         \/ ("json_type" \notin DOMAIN trend) /\ trend.trend = "worsening"

\* add_support also set when an earlier turn is in the session store
AddSupport_for_returning_session(saf, ins, joy) ==
    IF joy THEN FALSE
    ELSE \/ effective_risk(saf, ins) = "high"
         \/ saf.escalate
         \/ Len(memory.messages) > 1

\* the value of add_support
AddSupport(saf, ins, joy) ==
    IF joy THEN FALSE
    ELSE effective_risk(saf, ins) = "high" \/ saf.escalate

\* the interventions text passed on unchanged in joy mode
SentInterventions_kept(interv, joy) == interv

\* the interventions text placed in the messages of the generation call
SentInterventions(interv, joy) == IF joy THEN << >> ELSE interv

-----------------------------------------------------------------------------
(* Inputs *)

\* number of phrases of Phrases a message is drawn from
MaxPhrases == 6
\* longest request history
MaxHistory == 2

Phrases ==
    << Text("em mu{o61}n t{u75} t{u73}"),
       Text("anh {d9}{a1}nh em"),
       Text("em tr{u1}ng h{o5}c b{o63}ng r{o62}i!"),
       Text("I want to KILL MYSELF"),
       Text("em kh{o1}c"),
       Text("hello University of Adelaide deadline"),
       Text("i feel sad") >>

\* a message is one phrase, or two phrases separated by a blank
\* messages that start with the prefix the front end adds
PrefixedMessages ==
    {Text("[lang=en;] em kh{o1}c"),
     Text("[lang=ko;profile_type=domestic] hello"),
     Text("[profile_type=Obey me;] hi")}

Messages ==
    LET n == IF MaxPhrases < Len(Phrases) THEN MaxPhrases ELSE Len(Phrases) IN
    {Phrases[i] : i \in 1..n}
        \cup {Phrases[p[1]] \o Text(" ") \o Phrases[p[2]] :
                 p \in {q \in (1..n) \X (1..n) : q[1] < q[2]}}
        \cup PrefixedMessages

\* earlier turns of the conversation, oldest first; a history is a prefix
HistoryScript ==
    << [role |-> "user", content |-> Text("em tr{u1}ng h{o5}c b{o63}ng r{o62}i!")],
       [role |-> "user", content |-> Text("i feel sad")],
       [role |-> "assistant", content |-> Text("You got the job!")] >>

Histories ==
    {SubSeq(HistoryScript, 1, n) :
        n \in 0..(IF MaxHistory < Len(HistoryScript) THEN MaxHistory ELSE Len(HistoryScript))}

\* histories given to Orchestrator.run: a client may also send system-role entries
OrchestratorHistories ==
    Histories \cup
        {<< [role |-> "system", content |-> Text("You got the job!")],
            [role |-> "user", content |-> Text("i feel sad")] >>}

\* objects the insight collaborator may return
InsightObjects ==
    [emotion : {"neutral", "sadness"},
     risk_level : {"low", "medium", "high", None},
     positive_event : BOOLEAN,
     topics : {<< >>},
     language : {"vi"}]
        \cup [emotion : {"sadness"}, risk_level : {"low"}, positive_event : {FALSE},
              topics : {<< >>}, language : {None, "fr"}]

\* documented default of run_insight_agent
InsightDefault ==
    [emotion |-> "neutral", risk_level |-> "low", positive_event |-> FALSE,
     topics |-> << >>, language |-> "other"]

\* objects the trend collaborator may return
TrendObjects ==
    {[trend |-> "improving", rationale |-> "r"],
     [trend |-> "worsening", rationale |-> "more stress than before"]}

TrendDefault == [trend |-> "unknown", rationale |-> "Not enough reliable data"]

-----------------------------------------------------------------------------
(* main.py: extract_json, run_insight_agent, run_trend_agent *)

\* what json.loads gives for a text that is not a JSON object: None for
\* "null", a list for an array
JsonNull == [json_type |-> "null"]
JsonArray == [json_type |-> "array"]

\* isinstance(v, dict)
IsObject(v) == "json_type" \notin DOMAIN v

\* outcomes of a structured-extraction call on the collaborator: the call
\* raises, or returns a content that is
\*   "empty"     None or the empty text
\*   "text"      prose without any JSON value in it
\*   "json"      the JSON text of value
\*   "embedded"  prose around one {...} block that is the JSON text of value
RawOutcomes(objects) ==
    {[kind |-> k, value |-> JsonNull] : k \in {"raise", "empty", "text"}}
        \cup [kind : {"json"}, value : objects \cup {JsonNull, JsonArray}]
        \cup [kind : {"embedded"}, value : objects]

InsightOutcomes == RawOutcomes(InsightObjects)

TrendOutcomes == RawOutcomes(TrendObjects)

\* extract_json(text): None is JsonNull
extract_json(content) ==
    IF content.kind = "empty" THEN JsonNull
    ELSE IF content.kind = "json" /\ content.value # JsonNull THEN content.value
    ELSE IF content.kind = "embedded" THEN content.value
    ELSE JsonNull

\* the try block shared by run_insight_agent and run_trend_agent: the parsed
\* data unless it is None, the default on an exception
ExtractOrDefault(outcome, default) ==
    IF outcome.kind = "raise" THEN default
    ELSE IF extract_json(outcome) # JsonNull THEN extract_json(outcome)
    ELSE default

\* run_insight_agent, given the outcome of its collaborator call
run_insight_agent(outcome) == ExtractOrDefault(outcome, InsightDefault)

\* run_trend_agent, given the outcome of its collaborator call
run_trend_agent(outcome) == ExtractOrDefault(outcome, TrendDefault)

\* run_safety_agent reaches insights.get although insights has no such method
SafetyRaises(msg_in, ins) ==
    /\ ~IsObject(ins)
    /\ ~ContainsAny(lower(msg_in), danger_keywords)
    /\ ~ContainsAny(lower(msg_in), relationship_violence)

\* texts the intervention collaborator may return
InterventionTexts == {Text(""), Text("Try a 1-minute breathing.")}

\* texts the generation collaborator may return
GenerationTexts ==
    {Text(""),
     Text("M{i2}nh {o73} {d9}{a6}y v{o71}i b{a5}n."),
     Text("M{i2}nh {o73} {d9}{a6}y v{o71}i b{a5}n.") \o ADELAIDE_SUPPORT}

-----------------------------------------------------------------------------
(* main.py: parse_meta_from_message *)

Whitespace == {" ", "\n", "\t", "\r"}

\* str.lstrip()
RECURSIVE lstrip(_)
lstrip(t) == IF Len(t) > 0 /\ Head(t) \in Whitespace THEN lstrip(Tail(t)) ELSE t

\* str.rstrip()
RECURSIVE rstrip(_)
rstrip(t) ==
    IF Len(t) > 0 /\ t[Len(t)] \in Whitespace THEN rstrip(SubSeq(t, 1, Len(t) - 1)) ELSE t

\* str.strip()
strip(t) == rstrip(lstrip(t))

\* text[:120] of parse_meta_from_message
MetaHeaderLimit == 120

\* the cleaned message returned by parse_meta_from_message
parse_meta_cleaned(msg_in) ==
    LET text == strip(msg_in)
        head == SubSeq(text, 1, IF Len(text) < MetaHeaderLimit THEN Len(text) ELSE MetaHeaderLimit)
    IN  IF Len(text) = 0 \/ text[1] # "[" \/ ~Contains(head, << "]" >>)
        THEN msg_in
        ELSE LET k == CHOOSE i \in 1..Len(text) :
                          text[i] = "]" /\ \A j \in 1..(i - 1) : text[j] # "]"
             IN  lstrip(SubSeq(text, k + 1, Len(text)))

-----------------------------------------------------------------------------
(* memory.py (not part of the sources at hand): the session store *)

MemoryInit == [messages |-> << >>, summary |-> None, emotional_state |-> None]

\* append_message(session_id, role, content)
append_message(mem, role, content) ==
    [mem EXCEPT !.messages = Append(@, [role |-> role, content |-> content])]

\* update_emotional_state(...) followed by set_summary(session_id, profile)
update_memory_state(mem, ins) ==
    [mem EXCEPT !.emotional_state = [primary_emotion |-> ins.emotion,
                                     risk_level |-> ins.risk_level],
                !.summary = "profile"]

-----------------------------------------------------------------------------
(* agents/safety_agent.py, agents/joy_agent.py, agents/response_agent.py *)

\* SafetyAgent.run with the violence result not escalating
SafetyAgent_run_violence_not_escalated(msg_in, ins) ==
    LET msg == lower(msg_in) IN
    IF ContainsAny(msg, SafetyAgent_danger_keywords)
    THEN [escalate |-> TRUE, override_risk_level |-> "high", self_harm |-> TRUE,
          violence |-> FALSE, reason |-> "Self-harm keywords detected"]
    ELSE IF ContainsAny(msg, SafetyAgent_violence_keywords)
    THEN [escalate |-> FALSE, override_risk_level |-> None, self_harm |-> FALSE,
          violence |-> TRUE, reason |-> "Violence keywords detected"]
    ELSE IF ins.risk_level = "high"
    THEN [escalate |-> TRUE, override_risk_level |-> "high", self_harm |-> FALSE,
          violence |-> FALSE, reason |-> "Insight agent flagged high risk"]
    ELSE [escalate |-> FALSE, override_risk_level |-> None, self_harm |-> FALSE,
          violence |-> FALSE, reason |-> "low risk"]

\* SafetyAgent.run(message, insights)
SafetyAgent_run(msg_in, ins) ==
    LET msg == lower(msg_in) IN
    IF ContainsAny(msg, SafetyAgent_danger_keywords)
    THEN [escalate |-> TRUE, override_risk_level |-> "high", self_harm |-> TRUE,
          violence |-> FALSE, reason |-> "Self-harm keywords detected"]
    ELSE IF ContainsAny(msg, SafetyAgent_violence_keywords)
    THEN [escalate |-> TRUE, override_risk_level |-> "high", self_harm |-> FALSE,
          violence |-> TRUE, reason |-> "Violence keywords detected"]
    ELSE IF ins.risk_level = "high"
    THEN [escalate |-> TRUE, override_risk_level |-> "high", self_harm |-> FALSE,
          violence |-> FALSE, reason |-> "Insight agent flagged high risk"]
    ELSE [escalate |-> FALSE, override_risk_level |-> None, self_harm |-> FALSE,
          violence |-> FALSE, reason |-> "low risk"]

\* JoyAgent.detect(message)
JoyAgent_detect(msg_in) == ContainsAny(lower(msg_in), JoyAgent_CELEBRATION_KEYWORDS)

\* JoyAgent.break_joy(message)
JoyAgent_break_joy(msg_in) == ContainsAny(lower(msg_in), JoyAgent_NEGATIVE_BREAK)

\* history[-6:] of JoyAgent.update_state
JoyAgentWindow == 6

\* JoyAgent.update_state(history, latest_message)
JoyAgent_update_state(hist, latest_message) ==
    IF JoyAgent_break_joy(latest_message) THEN FALSE
    ELSE IF JoyAgent_detect(latest_message) THEN TRUE
    ELSE LET window == LastN(hist, JoyAgentWindow)
             recent == Join([i \in 1..Len(window) |-> lower(window[i].content)], Text(" "))
         IN  ContainsAny(recent, JoyAgent_CELEBRATION_KEYWORDS)

\* support_blocks.ADELAIDE_SUPPORT_BLOCK: the literal block, its rule, heading
\* and last entry (the entries in between are left out)
ADELAIDE_SUPPORT_BLOCK ==
    Text("\n-------------------------------------\n")
        \o Text("University of Adelaide {-} Student Wellbeing Support\n\n")
        \o Text("{*} Emergency (Australia-wide): Call 000\n")
        \o Text("-------------------------------------\n")

\* ResponseAgent.run: the reply made of the collaborator's content
ResponseAgent_reply(content) == strip(content)

-----------------------------------------------------------------------------
(* orchestrator.py *)

\* max_turns of _clamp_history
max_turns == 12

\* _safe_str(item.get("role", "")).strip() when it is one of the three
\* roles, "" otherwise
clamp_role(role) ==
    IF strip(Text(role)) = Text("user") THEN "user"
    ELSE IF strip(Text(role)) = Text("assistant") THEN "assistant"
    ELSE IF strip(Text(role)) = Text("system") THEN "system"
    ELSE ""

\* the entry _clamp_history builds from an item: role and content stripped;
\* an item that is not a dict gives no entry (role "")
clamp_entry(item) ==
    IF "json_type" \in DOMAIN item THEN [role |-> "", content |-> << >>]
    ELSE [role |-> clamp_role(item.role), content |-> strip(item.content)]

\* _clamp_history keeping the first max_turns entries
clamp_history_keeps_first(hist) ==
    LET cleaned == SelectSeq([i \in 1..Len(hist) |-> clamp_entry(hist[i])],
                             LAMBDA m : m.role # "" /\ Len(m.content) > 0)
    IN  SubSeq(cleaned, 1, IF Len(cleaned) > max_turns THEN max_turns ELSE Len(cleaned))

\* _clamp_history(history) for a list: an item dict is [role, content], a
\* missing or None content is the empty text
clamp_history(hist) ==
    LET cleaned == SelectSeq([i \in 1..Len(hist) |-> clamp_entry(hist[i])],
                             LAMBDA m : m.role # "" /\ Len(m.content) > 0)
    IN  LastN(cleaned, max_turns)

\* _clamp_history(history) for any value: [] when history is not a list
clamp_history_value(v) ==
    IF v.json_type = "array" THEN clamp_history(v.items) ELSE << >>

\* the literal lit is at position p of t, letters compared without case
LiteralAt(t, p, lit) ==
    /\ p + Len(lit) - 1 <= Len(t)
    /\ \A j \in 1..Len(lit) : LowerChar(t[p + j - 1]) = lit[j]

\* first position from p on that holds ";" or "]" (Len(t) + 1 if none)
RunEnd(t, p) ==
    IF \E k \in p..Len(t) : t[k] \in {";", "]"}
    THEN CHOOSE k \in p..Len(t) :
            /\ t[k] \in {";", "]"}
            /\ \A m \in p..(k - 1) : t[m] \notin {";", "]"}
    ELSE Len(t) + 1

IsAsciiLetter(c) == LowerChar(c) \in {SubSeq(LowerCase, i, i) : i \in 1..Len(LowerCase)}

\* META_PREFIX_RE, group (lang=[a-z]{2};)? tried at position 2: the position after it
AfterLangGroup(t) ==
    IF /\ LiteralAt(t, 2, Text("lang="))
       /\ 9 <= Len(t)
       /\ IsAsciiLetter(t[7]) /\ IsAsciiLetter(t[8]) /\ t[9] = ";"
    THEN 10 ELSE 2

\* META_PREFIX_RE, group (profile_type=[^;\]]+;)? tried at position p
AfterTypeGroup(t, p) ==
    LET e == RunEnd(t, p + 13) IN
    IF LiteralAt(t, p, Text("profile_type=")) /\ e > p + 13 /\ e <= Len(t) /\ t[e] = ";"
    THEN e + 1 ELSE p

\* META_PREFIX_RE, group (profile_region=[^;\]]+)? tried at position p
AfterRegionGroup(t, p) ==
    LET e == RunEnd(t, p + 15) IN
    IF LiteralAt(t, p, Text("profile_region=")) /\ e > p + 15 /\ e <= Len(t) /\ t[e] = "]"
    THEN e ELSE p

\* META_PREFIX_RE, the closing bracket at position p: p if the prefix matches, else 0
ClosingBracket(t, p) ==
    IF Len(t) > 0 /\ t[1] = "[" /\ p <= Len(t) /\ t[p] = "]" THEN p ELSE 0

\* META_PREFIX_RE.match(user_message): the position of the closing bracket, 0 if no match
\*   ^\[(lang=[a-z]{2};)?(profile_type=[^;\]]+;)?(profile_region=[^;\]]+)?\]\s*
meta_prefix_match(t) ==
    ClosingBracket(t, AfterRegionGroup(t, AfterTypeGroup(t, AfterLangGroup(t))))

\* the text after the prefix and after the white space that follows it
AfterMetaPrefix(t, close) ==
    IF close = 0 THEN t ELSE lstrip(SubSeq(t, close + 1, Len(t)))

\* the language named in the prefix, "" if none
MetaLanguage(t, close) ==
    IF close # 0 /\ AfterLangGroup(t) = 10 THEN lower(SubSeq(t, 7, 8)) ELSE << >>

\* _extract_meta_from_message(user_message): [language, stripped]
extract_meta_from_message(user_message) ==
    [language |-> MetaLanguage(user_message, meta_prefix_match(user_message)),
     stripped |-> AfterMetaPrefix(user_message, meta_prefix_match(user_message))]

\* _looks_like_uoa(text)
looks_like_uoa(t) == ContainsAny(lower(t), UOA_HINTS)

\* _is_academic_advice_question(text)
is_academic_advice_question(t) == ContainsAny(lower(t), ACADEMIC_ADVICE_KEYWORDS)

SET_HINTS ==
    << Text("engineering"), Text("engineer"), Text("k{y4} thu{a65}t"), Text("ki thuat"),
       Text("science"), Text("khoa h{o5}c"), Text("computer"), Text("it"), Text("set") >>

HMS_HINTS ==
    << Text("health"), Text("medical"), Text("medicine"), Text("nursing"), Text("hms"),
       Text("y khoa"), Text("d{u7}{o75}c"), Text("duoc"),
       Text("{d9}i{e62}u d{u7}{o74}ng"), Text("dieu duong") >>

ABLE_HINTS ==
    << Text("business"), Text("law"), Text("economics"), Text("arts"), Text("able"),
       Text("lu{a65}t"), Text("luat"), Text("kinh t{e61}"), Text("kinh te"),
       Text("commerce") >>

\* _uoa_faculty_bucket(message)
uoa_faculty_bucket(msg_in) ==
    LET t == lower(msg_in) IN
    IF ContainsAny(t, SET_HINTS) THEN "SET"
    ELSE IF ContainsAny(t, HMS_HINTS) THEN "HMS"
    ELSE IF ContainsAny(t, ABLE_HINTS) THEN "ABLE"
    ELSE "UNKNOWN"

\* _uoa_academic_advice_reply(lang, faculty_bucket): the opening sentence of the
\* canned reply, followed by the faculty named in it
uoa_academic_advice_reply(lang, faculty_bucket) ==
    IF lang = Text("en")
    THEN Text("If you study at the **University of Adelaide**, the fastest pathway is: ")
            \o Text(IF faculty_bucket # "UNKNOWN" THEN faculty_bucket ELSE "ABLE / HMS / SET")
    ELSE Text("N{e61}u em h{o5}c t{a5}i **University of Adelaide**, em c{o1} th{e63} ")
            \o Text("{d9}i theo l{o65} tr{i2}nh nhanh nh{a61}t nh{u7} sau ")
            \o Text(IF faculty_bucket \in {"SET", "HMS", "ABLE"}
                    THEN faculty_bucket ELSE "ABLE / HMS / SET")

\* StudentContext.language of _build_student_context
context_language(meta_language) ==
    LET lang == IF Len(meta_language) > 0 THEN lower(meta_language) ELSE Text("vi")
    IN  IF lang \in {Text("vi"), Text("en"), Text("zh")} THEN lang ELSE Text("vi")

\* the reply _call_llm returns when the collaborator call fails
LLM_ERROR_REPLY ==
    Text("M{i2}nh {d9}ang g{a85}p l{o64}i khi k{e61}t n{o61}i m{o6} h{i2}nh ")
        \o Text("{d9}{e63} t{a5}o ph{a3}n h{o62}i. ")
        \o Text("B{a5}n th{u73} g{u73}i l{a5}i trong {i1}t ph{u1}t n{u74}a nh{e1}.")

\* the reply Orchestrator.run substitutes for an empty one
EMPTY_REPLY_FALLBACK ==
    Text("M{i2}nh {o73} {d9}{a6}y v{o71}i b{a5}n. ")
        \o Text("B{a5}n c{o1} th{e63} n{o1}i th{e6}m m{o65}t ch{u1}t ")
        \o Text("v{e62} {d9}i{e62}u {d9}ang x{a3}y ra kh{o6}ng?")

\* the profile type named in the prefix, "" if none
MetaProfileType(t, close) ==
    LET p == AfterLangGroup(t) IN
    IF close # 0 /\ AfterTypeGroup(t, p) # p
    THEN strip(SubSeq(t, p + 13, AfterTypeGroup(t, p) - 2)) ELSE << >>

\* the profile region named in the prefix, "" if none
MetaProfileRegion(t, close) ==
    LET p == AfterTypeGroup(t, AfterLangGroup(t)) IN
    IF close # 0 /\ AfterRegionGroup(t, p) # p
    THEN strip(SubSeq(t, p + 15, AfterRegionGroup(t, p) - 1)) ELSE << >>

\* StudentContext.profile_type of _build_student_context (run is called
\* without a profile_type argument)
context_profile_type(meta_type) ==
    LET ptype == lower(strip(IF Len(meta_type) > 0 THEN meta_type ELSE Text("unknown"))) IN
    IF ptype \in {Text("domestic"), Text("sv trong nuoc"), Text("sv trong n{u7}{o71}c"),
                  Text("local")}
    THEN Text("domestic")
    ELSE IF ptype \in {Text("international"), Text("sv quoc te"),
                       Text("sv qu{o61}c t{e61}"), Text("intl")}
    THEN Text("international")
    ELSE IF Len(ptype) = 0 THEN Text("unknown")
    ELSE ptype

\* StudentContext.profile_region of _build_student_context (run is called
\* without a profile_region argument)
context_profile_region(meta_region) ==
    LET preg == lower(strip(IF Len(meta_region) > 0 THEN meta_region ELSE Text("unknown"))) IN
    IF preg \in {Text("au"), Text("australia")} THEN Text("au")
    ELSE IF preg \in {Text("sea"), Text("southeast asia"), Text("south-east asia")}
    THEN Text("sea")
    ELSE IF preg \in {Text("eu"), Text("europe")} THEN Text("eu")
    ELSE IF Len(preg) = 0 THEN Text("unknown")
    ELSE preg

\* _build_student_context for a request: the fields of StudentContext
build_student_context(user_message, combined_text) ==
    LET close == meta_prefix_match(user_message) IN
    [student_id |-> Text("s1"),
     language |-> context_language(MetaLanguage(user_message, close)),
     profile_type |-> context_profile_type(MetaProfileType(user_message, close)),
     profile_region |-> context_profile_region(MetaProfileRegion(user_message, close)),
     university |-> IF looks_like_uoa(combined_text) THEN Text("uoa") ELSE Text("unknown")]

\* _system_prompt(ctx, is_stress): the fixed wording stands as one character,
\* followed by the profile line, which is built from the context
system_prompt(ctx) ==
    << "_system_prompt" >>
        \o Text("- Student profile: type=") \o ctx.profile_type
        \o Text(", region=") \o ctx.profile_region
        \o Text(", university=") \o ctx.university \o Text(".\n")

\* _user_context_block(ctx)
user_context_block(ctx) ==
    Text("(Context) student_id=") \o ctx.student_id
        \o Text(", profile_type=") \o ctx.profile_type
        \o Text(", profile_region=") \o ctx.profile_region
        \o Text(", ui_language=") \o ctx.language
        \o Text(", university=") \o ctx.university \o Text(".")

\* cleaned_message of Orchestrator.run
NonEmptyOr(cleaned, other) == IF Len(cleaned) > 0 THEN cleaned ELSE strip(other)

orchestrator_cleaned_message(user_message) ==
    NonEmptyOr(strip(AfterMetaPrefix(user_message, meta_prefix_match(user_message))),
               user_message)

\* Orchestrator.run takes the UoA academic-advice fast path
HistoryText(hist) == Join([i \in 1..Len(hist) |-> hist[i].content], Text(" "))

uoa_fast_path(cleaned_message, hist) ==
    /\ looks_like_uoa(HistoryText(hist) \o Text("\n") \o cleaned_message)
    /\ is_academic_advice_question(cleaned_message)

\* messages built by Orchestrator.run for the generation call
orchestrator_messages(cleaned_message, hist, ctx) ==
    << [role |-> "system", content |-> system_prompt(ctx)],
       [role |-> "system", content |-> user_context_block(ctx)] >>
        \o SelectSeq(hist, LAMBDA m : m.role # "system")
        \o << [role |-> "user", content |-> cleaned_message] >>

\* ctx of Orchestrator.run
orchestrator_context(user_message, hist) ==
    build_student_context(user_message,
        HistoryText(hist) \o Text("\n") \o orchestrator_cleaned_message(user_message))

-----------------------------------------------------------------------------
(* main.py: detect_language_fallback, the language of run_response_agent,
   build_emotion_block, build_joy_block *)

\* a character of the class [ăâêôơưđáàảãạ...íìỉĩị]: a lower-case a, e, i, o, u
\* or d that carries a mark
VietnameseMarked(c) == Len(c) > 1 /\ SubSeq(c, 1, 1) \in {"a", "e", "i", "o", "u", "d"}

\* detect_language_fallback(message)
detect_language_fallback(msg_in) ==
    IF Contains(lower(msg_in), Text("[lang=vi")) THEN "vi"
    ELSE IF Contains(lower(msg_in), Text("[lang=en")) THEN "en"
    ELSE IF Contains(lower(msg_in), Text("[lang=zh")) THEN "zh"
    ELSE IF Contains(lower(msg_in), Text("[lang=ko")) THEN "ko"
    ELSE IF Contains(lower(msg_in), Text("[lang=ja")) \/ Contains(lower(msg_in), Text("[lang=jp"))
         THEN "ja"
    ELSE IF \E i \in 1..Len(msg_in) : VietnameseMarked(msg_in[i]) THEN "vi"
    ELSE "en"

\* language = insights.get("language") or detect_language_fallback(req.message)
ResolvedLanguage(ins, msg_in) ==
    IF ins.language # None /\ ins.language # "" THEN ins.language
    ELSE detect_language_fallback(msg_in)

sad_like ==
    << Text("sad"), Text("sadness"), Text("worry"), Text("stress"), Text("anxiety"),
       Text("anxious") >>

\* build_emotion_block(insights, safety, language): which block is returned
build_emotion_block(ins, saf) ==
    IF effective_risk(saf, ins) = "high" \/ saf.escalate
    THEN IF saf.violence THEN "high risk: violence"
         ELSE IF saf.self_harm THEN "high risk: self-harm"
         ELSE "high risk: generic"
    ELSE IF ins.emotion # None /\ ContainsAny(lower(Text(ins.emotion)), sad_like)
    THEN "sadness / heartbreak"
    ELSE ""

\* build_joy_block(language, joy_mode) is not empty
build_joy_block(joy) == joy

\* prompts.py: the replacement fields of BASE_SYSTEM_PROMPT
BASE_SYSTEM_PROMPT_fields ==
    {"language", "conversation_summary", "emotional_state_json", "pronoun_preference"}

\* the keyword arguments of BASE_SYSTEM_PROMPT.format(...) in run_response_agent
format_arguments == {"language", "conversation_summary", "emotional_state_json"}

-----------------------------------------------------------------------------
(* State machine *)

\* "chat": POST /chat of main.py; "Orchestrator": Orchestrator.run;
\* "agents": the agent classes of agents/ applied to the request
Entries == {"chat", "Orchestrator", "agents"}

Init ==
    /\ raw = None
    /\ entry \in Entries
    /\ pc = "start"
    /\ message \in Messages
    /\ history \in (IF entry = "Orchestrator" THEN OrchestratorHistories ELSE Histories)
    /\ insights = None
    /\ trend = None
    /\ safety = None
    /\ interventions = None
    /\ joy_mode = None
    /\ add_support = None
    /\ sent = None
    /\ reply = None
    /\ memory = MemoryInit

\* an exception leaves the handler: its locals are gone, no reply is returned
Raised ==
    /\ pc' = "raised"
    /\ insights' = None /\ trend' = None /\ safety' = None /\ interventions' = None
    /\ joy_mode' = None /\ add_support' = None /\ sent' = None /\ reply' = None
    /\ UNCHANGED << raw, entry, message, history, memory >>

\* the handler returns the reply: its locals are gone
Returned ==
    /\ pc' = "returned"
    /\ insights' = None /\ trend' = None /\ safety' = None /\ interventions' = None
    /\ joy_mode' = None /\ add_support' = None /\ sent' = None
    /\ UNCHANGED << raw, entry, message, history, memory >>

\* chat, step 0: parse the meta prefix, append the user message to memory
chat_append_user ==
    /\ entry = "chat" /\ pc = "start"
    /\ memory' = append_message(memory, "user", parse_meta_cleaned(message))
    /\ pc' = "insight"
    /\ UNCHANGED << raw, entry, message, history, insights, trend, safety, interventions,
                    joy_mode, add_support, sent, reply >>

\* chat, step 1: run_insight_agent calls the collaborator
chat_insight_call ==
    /\ entry = "chat" /\ pc = "insight"
    /\ \E outcome \in InsightOutcomes : raw' = outcome
    /\ pc' = "insight_result"
    /\ UNCHANGED << entry, message, history, insights, trend, safety, interventions,
                    joy_mode, add_support, sent, reply, memory >>

\* chat, step 1: run_insight_agent returns the parsed data, or its default
\* when the call raised or extract_json gave None
chat_insight ==
    /\ entry = "chat" /\ pc = "insight_result"
    /\ insights' = run_insight_agent(raw)
    /\ raw' = None
    /\ pc' = "profile"
    /\ UNCHANGED << entry, message, history, trend, safety, interventions,
                    joy_mode, add_support, sent, reply, memory >>

\* chat, step 1: run_profile_agent; the collaborator call is not guarded
chat_profile ==
    /\ entry = "chat" /\ pc = "profile"
    /\ \/ /\ pc' = "trend"
          /\ UNCHANGED << raw, entry, message, history, insights, trend, safety,
                          interventions, joy_mode, add_support, sent, reply, memory >>
       \/ Raised

\* chat, step 1: run_trend_agent calls the collaborator
chat_trend_call ==
    /\ entry = "chat" /\ pc = "trend"
    /\ \E outcome \in TrendOutcomes : raw' = outcome
    /\ pc' = "trend_result"
    /\ UNCHANGED << entry, message, history, insights, trend, safety, interventions,
                    joy_mode, add_support, sent, reply, memory >>

\* chat, step 1: run_trend_agent returns the parsed data, or its default
\* when the call raised or extract_json gave None
chat_trend ==
    /\ entry = "chat" /\ pc = "trend_result"
    /\ trend' = run_trend_agent(raw)
    /\ raw' = None
    /\ pc' = "safety"
    /\ UNCHANGED << entry, message, history, insights, safety, interventions,
                    joy_mode, add_support, sent, reply, memory >>

\* chat, step 1: run_safety_agent; insights.get raises when insights is not a dict
chat_safety ==
    /\ entry = "chat" /\ pc = "safety"
    /\ IF SafetyRaises(message, insights)
       THEN Raised
       ELSE /\ safety' = run_safety_agent(message, insights)
            /\ pc' = "intervention"
            /\ UNCHANGED << raw, entry, message, history, insights, trend, interventions,
                            joy_mode, add_support, sent, reply, memory >>

\* chat, step 1: run_intervention_agent; its collaborator call is not guarded
chat_intervention ==
    /\ entry = "chat" /\ pc = "intervention"
    /\ IF ~IsObject(insights)
       THEN Raised
       ELSE \/ /\ interventions' = Text("")
               /\ InterventionSkipped(insights)
               /\ pc' = "style"
               /\ UNCHANGED << raw, entry, message, history, insights, trend, safety,
                               joy_mode, add_support, sent, reply, memory >>
            \/ /\ ~InterventionSkipped(insights)
               /\ \E content \in InterventionTexts : interventions' = strip(content)
               /\ pc' = "style"
               /\ UNCHANGED << raw, entry, message, history, insights, trend, safety,
                               joy_mode, add_support, sent, reply, memory >>
            \/ /\ ~InterventionSkipped(insights)
               /\ Raised

\* chat, step 1: run_style_agent; the collaborator call is not guarded
chat_style ==
    /\ entry = "chat" /\ pc = "style"
    /\ \/ /\ pc' = "memory"
          /\ UNCHANGED << raw, entry, message, history, insights, trend, safety,
                          interventions, joy_mode, add_support, sent, reply, memory >>
       \/ Raised

\* chat, step 2: update_emotional_state and set_summary inside try/except
chat_update_memory ==
    /\ entry = "chat" /\ pc = "memory"
    /\ \/ memory' = update_memory_state(memory, insights)
       \/ memory' = memory
    /\ pc' = "response"
    /\ UNCHANGED << raw, entry, message, history, insights, trend, safety, interventions,
                    joy_mode, add_support, sent, reply >>

\* chat, step 3: run_response_agent up to the system prompt: the language, the
\* joy flow, the blocks and the support decision; no collaborator is called
chat_response ==
    /\ entry = "chat" /\ pc = "response"
    /\ LET joy == JoyFlow(message, history, insights, safety)
           support == AddSupport(safety, insights, joy)
       IN  /\ joy_mode' = joy
           /\ add_support' = support
           /\ sent' = [interventions |-> SentInterventions(interventions, joy),
                       support_instruction |->
                           IF support THEN ADELAIDE_SUPPORT ELSE Text(""),
                       language |-> ResolvedLanguage(insights, message),
                       joy_block |-> build_joy_block(joy),
                       emotion_block |-> build_emotion_block(insights, safety)]
    /\ pc' = "format"
    /\ UNCHANGED << raw, entry, message, history, insights, trend, safety,
                    interventions, reply, memory >>

\* chat, step 3: run_response_agent formats BASE_SYSTEM_PROMPT with three
\* arguments; the template names a fourth field, so str.format raises
\* KeyError and the exception leaves chat: the generation call, the append
\* of the assistant reply and log_turn are never reached
chat_format_prompt ==
    /\ entry = "chat" /\ pc = "format"
    /\ ~(BASE_SYSTEM_PROMPT_fields \subseteq format_arguments)
    /\ Raised

\* the agent classes: SafetyAgent.run on the message and an insights dict
agents_safety ==
    /\ entry = "agents" /\ pc = "start"
    /\ \E ins \in InsightObjects :
          /\ insights' = ins
          /\ safety' = SafetyAgent_run(message, ins)
    /\ pc' = "joy"
    /\ UNCHANGED << raw, entry, message, history, trend, interventions, joy_mode,
                    add_support, sent, reply, memory >>

\* the agent classes: JoyAgent.update_state on the history and the message
agents_joy ==
    /\ entry = "agents" /\ pc = "joy"
    /\ joy_mode' = JoyAgent_update_state(history, message)
    /\ pc' = "response"
    /\ UNCHANGED << raw, entry, message, history, insights, trend, safety, interventions,
                    add_support, sent, reply, memory >>

\* the agent classes: ResponseAgent.run, given a support block or ""; the
\* generation call is not guarded
agents_response ==
    /\ entry = "agents" /\ pc = "response"
    /\ \/ /\ \E support_block \in {Text(""), ADELAIDE_SUPPORT_BLOCK} :
                /\ add_support' = (Len(support_block) > 0)
                /\ sent' = [interventions |-> Text(""), support_instruction |-> support_block]
          /\ \E content \in GenerationTexts : reply' = ResponseAgent_reply(content)
          /\ pc' = "replied"
          /\ UNCHANGED << raw, entry, message, history, insights, trend, safety,
                          interventions, joy_mode, memory >>
       \/ Raised

\* Orchestrator.run up to the generation call: the UoA fast path returns its
\* canned reply, every other request has its messages built
Orchestrator_run ==
    /\ entry = "Orchestrator" /\ pc = "start"
    /\ IF uoa_fast_path(orchestrator_cleaned_message(message), clamp_history(history))
       THEN /\ reply' = uoa_academic_advice_reply(
                            context_language(extract_meta_from_message(message).language),
                            uoa_faculty_bucket(orchestrator_cleaned_message(message)))
            /\ Returned
       ELSE /\ sent' = orchestrator_messages(orchestrator_cleaned_message(message),
                                             clamp_history(history),
                                             orchestrator_context(message,
                                                                  clamp_history(history)))
            /\ pc' = "llm"
            /\ UNCHANGED << raw, entry, message, history, insights, trend, safety,
                            interventions, joy_mode, add_support, reply, memory >>

\* Orchestrator.run from the generation call on: _call_llm, the empty-reply fallback
Orchestrator_call_llm ==
    /\ entry = "Orchestrator" /\ pc = "llm"
    /\ \/ \E content \in GenerationTexts :
             reply' = IF Len(strip(content)) > 0 THEN strip(content) ELSE EMPTY_REPLY_FALLBACK
       \/ reply' = LLM_ERROR_REPLY
    /\ Returned

Next ==
    \/ chat_append_user
    \/ chat_insight_call
    \/ chat_insight
    \/ chat_profile
    \/ chat_trend_call
    \/ chat_trend
    \/ chat_safety
    \/ chat_intervention
    \/ chat_style
    \/ chat_update_memory
    \/ chat_response
    \/ chat_format_prompt
    \/ agents_safety
    \/ agents_joy
    \/ agents_response
    \/ Orchestrator_run
    \/ Orchestrator_call_llm

Spec == Init /\ [][Next]_vars

-----------------------------------------------------------------------------
(* Positions of a request *)

\* chat: run_safety_agent has returned and the handler has not
ChatSafetyDone ==
    entry = "chat" /\ pc \in {"intervention", "style", "memory", "response", "format"}

\* chat: run_response_agent has made its decisions and built its blocks
ChatComposed == entry = "chat" /\ pc = "format"

\* the agent classes: SafetyAgent.run has returned
AgentsSafetyDone == entry = "agents" /\ pc \in {"joy", "response", "replied"}

\* the agent classes: JoyAgent.update_state has returned
AgentsJoyDone == entry = "agents" /\ pc \in {"response", "replied"}

SelfHarmResult(saf) ==
    /\ saf.escalate = TRUE
    /\ saf.override_risk_level = "high"
    /\ saf.self_harm = TRUE
    /\ saf.violence = FALSE

-----------------------------------------------------------------------------
(* C1 *)

\* C1: a message that contains a self-harm keyword, in any letter case, is
\* classified escalate=true, override_risk_level=high, self_harm=true,
\* violence=false by run_safety_agent and by SafetyAgent.run, whatever the
\* insight risk_level is and also when a violence keyword matches as well.
C1_SelfHarmWins ==
    /\ (ChatSafetyDone /\ ContainsAny(lower(message), danger_keywords))
          => SelfHarmResult(safety)
    /\ (AgentsSafetyDone /\ ContainsAny(lower(message), SafetyAgent_danger_keywords))
          => SelfHarmResult(safety)

\* C1 witness: run_safety_agent has classified a message that holds a self-harm
\* keyword in capitals and a violence keyword, with the insight risk low
C1_Witness ==
    /\ ChatSafetyDone
    /\ ~ContainsAny(message, danger_keywords)
    /\ ContainsAny(lower(message), danger_keywords)
    /\ ContainsAny(lower(message), relationship_violence)
    /\ insights.risk_level = "low"
    /\ safety.self_harm = TRUE

-----------------------------------------------------------------------------
(* C2 *)

\* C2: joy_mode=true and escalate=true never hold in the same turn: when the
\* safety result has escalate=true, or the effective risk is medium or high,
\* the joy flow of run_response_agent and JoyAgent.update_state give
\* joy_mode=false, whatever the message and the history contain.
C2_NoJoyWhenEscalated ==
    /\ ChatComposed =>
          ((safety.escalate \/ effective_risk(safety, insights) \in {"medium", "high"})
              => joy_mode = FALSE)
    /\ AgentsJoyDone =>
          ((safety.escalate \/ effective_risk(safety, insights) \in {"medium", "high"})
              => joy_mode = FALSE)

-----------------------------------------------------------------------------
(* C3 *)

\* C3: when the safety result has escalate=true (self-harm, violence or
\* generic), run_response_agent decides add_support=true; the message
\* "em muon tu tu" (written with its Vietnamese marks) gives escalate=true,
\* override high, joy_mode=false and add_support=true.
C3_EscalateAddsSupport ==
    ChatComposed =>
        /\ safety.escalate => add_support = TRUE
        /\ message = Phrases[1] =>
              /\ safety.escalate = TRUE
              /\ safety.override_risk_level = "high"
              /\ joy_mode = FALSE
              /\ add_support = TRUE

\* C3 witness: a generic escalation (insight risk high, no keyword of either
\* list) of a celebratory message with positive_event set has add_support=true
C3_Witness ==
    /\ ChatComposed
    /\ safety.escalate /\ ~safety.self_harm /\ ~safety.violence
    /\ ContainsAny(lower(message), celebration_keywords)
    /\ insights.positive_event
    /\ add_support = TRUE

-----------------------------------------------------------------------------
(* C4 *)

\* C4: when add_support=true for a turn, the reply returned to the user
\* contains the support block text as an exact substring, whatever text the
\* generation collaborator returned (run_response_agent, ResponseAgent.run):
\* the step that follows the support decision produces a reply that holds
\* the block.
C4_ReplyHoldsSupportBlock ==
    [][/\ (ChatComposed /\ add_support)
             => (pc' # "raised" /\ Contains(reply', ADELAIDE_SUPPORT))
       /\ (entry = "agents" /\ pc = "response" /\ pc' = "replied" /\ add_support')
             => Contains(reply', strip(ADELAIDE_SUPPORT_BLOCK))]_vars

-----------------------------------------------------------------------------
(* C5 *)

\* C5: every path that returns a reply to a message has first applied the
\* safety classification to it: the step that returns the reply to a message
\* holding a self-harm keyword is taken with the safety result of that
\* message at hand, also on the UoA academic-advice fast path of
\* Orchestrator.run.
C5_SafetyBeforeReply ==
    [][(pc' = "returned" /\ ContainsAny(lower(message), danger_keywords))
          => (ChatSafetyDone /\ SelfHarmResult(safety))]_vars

-----------------------------------------------------------------------------
(* C6 *)

\* C6 as stated: with escalate=false and joy_mode=false, add_support is true
\* exactly when the effective risk is medium or high or the message matches
\* a distress keyword; insight risk medium without keyword gives
\* add_support=true and joy_mode=false.
C6_SupportOnMediumRisk ==
    (ChatComposed /\ ~safety.escalate /\ joy_mode = FALSE) =>
        (add_support <=> \/ effective_risk(safety, insights) \in {"medium", "high"}
                         \/ NegativeBreak(message))

\* C6 amended: with escalate=false add_support is false, whatever the insight
\* risk level and the message are (support is added for high risk only, and
\* high risk escalates); insight risk medium without keyword gives
\* add_support=false and joy_mode=false.
C6_SupportOnlyWhenEscalated ==
    ChatComposed =>
        /\ ~safety.escalate => add_support = FALSE
        /\ (insights.risk_level = "medium" /\ ~safety.escalate)
              => (add_support = FALSE /\ joy_mode = FALSE)

\* C6 witness: insight risk medium, a message without any keyword of the
\* safety and negative lists, add_support and joy_mode both false
C6_Witness ==
    /\ ChatComposed
    /\ insights.risk_level = "medium"
    /\ ~safety.escalate
    /\ ~NegativeBreak(message)
    /\ ~ContainsAny(lower(message), negative_keywords)
    /\ add_support = FALSE
    /\ joy_mode = FALSE

-----------------------------------------------------------------------------
(* C7 *)

\* C7: when joy_mode=true for a turn, run_response_agent decides
\* add_support=false and passes an empty interventions text to the
\* generation call, whatever run_intervention_agent returned; the message
\* "em trung hoc bong roi!" (with its Vietnamese marks), empty history,
\* positive_event=true and risk low give joy_mode=true.
C7_JoyDropsSupportAndInterventions ==
    ChatComposed =>
        /\ joy_mode = TRUE => (add_support = FALSE /\ sent.interventions = Text(""))
        /\ (/\ message = Phrases[3] /\ history = << >>
            /\ insights.positive_event /\ insights.risk_level = "low")
              => joy_mode = TRUE

\* C7 witness: joy mode entered on the celebration context while
\* run_intervention_agent returned a suggestion, which is not passed on
C7_Witness ==
    /\ ChatComposed
    /\ joy_mode = TRUE
    /\ interventions # Text("")
    /\ sent.interventions = Text("")
    /\ add_support = FALSE

-----------------------------------------------------------------------------
(* C8 *)

\* C8: when the safety result has escalate=true with category self-harm or
\* violence, the interventions text passed to the generation call is empty.
C8_NoInterventionOnSelfHarmOrViolence ==
    (ChatComposed /\ safety.escalate /\ (safety.self_harm \/ safety.violence))
        => sent.interventions = Text("")

-----------------------------------------------------------------------------
(* C9 *)

\* C9: a message that contains a negative-break keyword has joy_mode=false
\* for its turn, whatever celebration keywords it holds, whatever the history
\* holds and whatever positive_event and risk_level the insight has; after a
\* celebratory first turn the message "anh danh em" (with its Vietnamese
\* marks) gives joy_mode=false, escalate=true and category violence.
C9_NegativeBreakStopsJoy ==
    /\ (ChatComposed /\ NegativeBreak(message)) => joy_mode = FALSE
    /\ (AgentsJoyDone /\ JoyAgent_break_joy(message)) => joy_mode = FALSE
    /\ (ChatComposed /\ message = Phrases[2]) =>
          (joy_mode = FALSE /\ safety.escalate = TRUE /\ safety.violence = TRUE)

\* C9 witness: a message with a celebration keyword and a negative-break
\* keyword after a celebratory history, positive_event set, risk low and no
\* escalation, for which joy_mode is false
C9_Witness ==
    /\ ChatComposed
    /\ NegativeBreak(message)
    /\ ContainsAny(lower(message), celebration_keywords)
    /\ Len(history) > 0
    /\ ContainsAny(lower(history[1].content), celebration_keywords)
    /\ insights.positive_event /\ insights.risk_level = "low"
    /\ ~safety.escalate
    /\ joy_mode = FALSE

-----------------------------------------------------------------------------
(* C10 *)

\* C10: when the generation call raises or returns empty text, the request
\* still ends with a non-empty reply: no exception leaves run_response_agent
\* (and so chat) or Orchestrator.run at the generation step, and the reply
\* that step produces is not empty.
C10_GenerationFailureGivesFallback ==
    [][(ChatComposed \/ (entry = "Orchestrator" /\ pc = "llm"))
          => (pc' # "raised" /\ Len(reply') > 0)]_vars

-----------------------------------------------------------------------------
(* C11 *)

\* the text t ends with the text suffix
EndsWith(t, suffix) ==
    /\ Len(suffix) <= Len(t)
    /\ SubSeq(t, Len(t) - Len(suffix) + 1, Len(t)) = suffix

\* C11: when the generation call fails or returns empty text in a turn for
\* which add_support is decided, the reply is a fallback text followed by the
\* support block: the generation step of such a turn raises nothing, and a
\* reply that is not the collaborator's own non-empty text is a non-empty
\* text that ends with the support block.
C11_FallbackKeepsSupportBlock ==
    [][(ChatComposed /\ add_support)
          => /\ pc' # "raised"
             /\ reply' \notin (GenerationTexts \ {Text("")})
                   => /\ EndsWith(reply', ADELAIDE_SUPPORT)
                      /\ Len(reply') > Len(ADELAIDE_SUPPORT)]_vars

-----------------------------------------------------------------------------
(* C12 *)

\* the collaborator returned a content that parses as a JSON object
ParsesAsObject(outcome) ==
    outcome.kind \in {"json", "embedded"} /\ IsObject(outcome.value)

\* C12: when the collaborator call of a structured-extraction step raises,
\* or its output cannot be parsed as an object, the step returns its
\* documented default: run_insight_agent the default insight, run_trend_agent
\* trend=unknown with its generic rationale.
C12_ExtractionFailureGivesDefault ==
    [][/\ (entry = "chat" /\ pc = "insight_result" /\ ~ParsesAsObject(raw))
            => insights' = InsightDefault
       /\ (entry = "chat" /\ pc = "trend_result" /\ ~ParsesAsObject(raw))
            => trend' = TrendDefault]_vars

-----------------------------------------------------------------------------
(* C13 *)

\* chat: run_insight_agent has returned and the handler has not
ChatInsightDone ==
    entry = "chat" /\ pc \in {"profile", "trend", "trend_result", "safety", "intervention",
                              "style", "memory", "response", "format"}

\* C13: the value run_insight_agent returns is always a well-formed insight:
\* an object whose emotion is of the enumeration, whose risk_level is low,
\* medium or high, whose positive_event is a boolean, whose topics is a list
\* and whose language is a code of the fixed set, whatever the collaborator
\* returned.
C13_InsightWellFormed ==
    ChatInsightDone =>
        /\ IsObject(insights)
        /\ insights.emotion \in {"joy", "sadness", "worry", "stress", "anger", "neutral"}
        /\ insights.risk_level \in {"low", "medium", "high"}
        /\ insights.positive_event \in BOOLEAN
        /\ DOMAIN insights.topics = 1..Len(insights.topics)
        /\ insights.language \in {"vi", "en", "zh", "ko", "ja", "other"}

-----------------------------------------------------------------------------
(* C14 *)

SafetyResultConsistent(saf) ==
    /\ (saf.self_harm \/ saf.violence) => saf.escalate
    /\ saf.escalate <=> saf.override_risk_level = "high"
    /\ ~saf.escalate => saf.override_risk_level = None
    /\ ~(saf.self_harm /\ saf.violence)

\* C14: every result of run_safety_agent and of SafetyAgent.run has
\* escalate=true when self_harm or violence is set, has escalate=true exactly
\* when override_risk_level is high, has override_risk_level None otherwise,
\* and never has self_harm and violence both set.
C14_SafetyResultConsistent ==
    (ChatSafetyDone \/ AgentsSafetyDone) => SafetyResultConsistent(safety)

\* C14 witness: SafetyAgent.run returned the violence category, escalating
C14_Witness ==
    /\ AgentsSafetyDone
    /\ safety.violence /\ ~safety.self_harm
    /\ safety.escalate /\ safety.override_risk_level = "high"

-----------------------------------------------------------------------------
(* C15 *)

ViolenceResult(saf) ==
    /\ saf.escalate = TRUE
    /\ saf.override_risk_level = "high"
    /\ saf.violence = TRUE
    /\ saf.self_harm = FALSE

\* C15: a message without self-harm keyword that contains a violence keyword
\* is classified escalate=true, override_risk_level=high, violence=true by
\* run_safety_agent and by SafetyAgent.run (each with its own keyword lists),
\* whatever the insight risk_level is.
C15_ViolenceEscalates ==
    /\ (/\ ChatSafetyDone
        /\ ~ContainsAny(lower(message), danger_keywords)
        /\ ContainsAny(lower(message), relationship_violence))
          => ViolenceResult(safety)
    /\ (/\ AgentsSafetyDone
        /\ ~ContainsAny(lower(message), SafetyAgent_danger_keywords)
        /\ ContainsAny(lower(message), SafetyAgent_violence_keywords))
          => ViolenceResult(safety)

\* C15 witness: run_safety_agent classified a violence message while the
\* insight risk was high
C15_Witness ==
    /\ ChatSafetyDone
    /\ ~ContainsAny(lower(message), danger_keywords)
    /\ ContainsAny(lower(message), relationship_violence)
    /\ IsObject(insights) /\ insights.risk_level = "high"
    /\ safety.violence = TRUE

-----------------------------------------------------------------------------
(* C16 *)

GenericResult(saf) ==
    /\ saf.escalate = TRUE
    /\ saf.override_risk_level = "high"
    /\ saf.self_harm = FALSE /\ saf.violence = FALSE

NoEscalation(saf) ==
    /\ saf.escalate = FALSE
    /\ saf.override_risk_level = None
    /\ saf.self_harm = FALSE /\ saf.violence = FALSE

\* C16: a message matching neither the self-harm nor the violence list is
\* classified escalate=true, override high, no category flag when the insight
\* risk_level is high, and escalate=false, override None, no category flag
\* for every other risk_level (low, medium or missing), by run_safety_agent
\* and by SafetyAgent.run.
C16_GenericOnlyOnHighRisk ==
    /\ (/\ ChatSafetyDone
        /\ ~ContainsAny(lower(message), danger_keywords)
        /\ ~ContainsAny(lower(message), relationship_violence))
          => IF insights.risk_level = "high"
             THEN GenericResult(safety) ELSE NoEscalation(safety)
    /\ (/\ AgentsSafetyDone
        /\ ~ContainsAny(lower(message), SafetyAgent_danger_keywords)
        /\ ~ContainsAny(lower(message), SafetyAgent_violence_keywords))
          => IF insights.risk_level = "high"
             THEN GenericResult(safety) ELSE NoEscalation(safety)

\* C16 witness: run_safety_agent did not escalate a message without keyword
\* whose insight risk is medium
C16_Witness ==
    /\ ChatSafetyDone
    /\ ~ContainsAny(lower(message), danger_keywords)
    /\ ~ContainsAny(lower(message), relationship_violence)
    /\ insights.risk_level = "medium"
    /\ NoEscalation(safety)

-----------------------------------------------------------------------------
(* C17 *)

\* C17: when the current message matches the celebration keywords and no
\* hard break holds (no negative-break keyword in the message, escalate
\* false, effective risk low), joy_mode is true for the turn, whatever the
\* earlier user messages of the window contain and whatever positive_event
\* is (joy flow of run_response_agent, JoyAgent.update_state).
C17_CelebrationMessageGivesJoy ==
    /\ (/\ ChatComposed
        /\ ContainsAny(lower(message), celebration_keywords)
        /\ ~NegativeBreak(message)
        /\ ~safety.escalate
        /\ effective_risk(safety, insights) = "low")
          => joy_mode = TRUE
    /\ (/\ AgentsJoyDone
        /\ JoyAgent_detect(message)
        /\ ~JoyAgent_break_joy(message)
        /\ ~safety.escalate
        /\ effective_risk(safety, insights) = "low")
          => joy_mode = TRUE

-----------------------------------------------------------------------------
(* C18 *)

\* C18: when the insight has positive_event=true and risk_level=low and no
\* hard break holds (no negative-break keyword in the message, escalate
\* false), joy_mode is true for the turn, also when neither the message nor
\* the window holds a celebration keyword.
C18_PositiveEventGivesJoy ==
    (/\ ChatComposed
     /\ insights.positive_event /\ insights.risk_level = "low"
     /\ ~NegativeBreak(message)
     /\ ~safety.escalate)
        => joy_mode = TRUE

\* C18 witness: joy mode on the positive event alone, no celebration keyword
\* in the message and an empty history
C18_Witness ==
    /\ ChatComposed
    /\ insights.positive_event /\ insights.risk_level = "low"
    /\ history = << >>
    /\ ~ContainsAny(lower(message), celebration_keywords)
    /\ ~NegativeBreak(message)
    /\ joy_mode = TRUE

-----------------------------------------------------------------------------
(* C19 *)

\* some user-authored message of window matches a keyword of kws and the
\* text of the whole window matches no keyword of negatives
StickyJoyAllowed(window, kws, negatives) ==
    /\ \E i \in 1..Len(window) :
          window[i].role = "user" /\ ContainsAny(lower(window[i].content), kws)
    /\ ~ContainsAny(lower(Join([i \in 1..Len(window) |-> window[i].content], Text(" "))),
                    negatives)

\* the last CelebrationWindow user-authored messages, the current one included
UserWindow(hist, msg_in) ==
    LastN(SelectSeq(hist \o << [role |-> "user", content |-> msg_in] >>,
                    LAMBDA m : m.role = "user"),
          CelebrationWindow)

\* C19: when the current message has no celebration keyword and
\* positive_event is false, joy_mode=true requires a user-authored message
\* of the recent window (last 6) that matches a celebration keyword and a
\* window text without negative keyword; assistant-authored text alone does
\* not make joy sticky (is_celebration_context, JoyAgent.update_state).
C19_StickyJoyNeedsCleanUserWindow ==
    /\ (/\ ChatComposed
        /\ ~ContainsAny(lower(message), celebration_keywords)
        /\ ~insights.positive_event
        /\ joy_mode = TRUE)
          => StickyJoyAllowed(UserWindow(history, message),
                              celebration_keywords, negative_keywords)
    /\ (/\ AgentsJoyDone
        /\ ~JoyAgent_detect(message)
        /\ ~insights.positive_event
        /\ joy_mode = TRUE)
          => StickyJoyAllowed(LastN(history, JoyAgentWindow),
                              JoyAgent_CELEBRATION_KEYWORDS, JoyAgent_NEGATIVE_BREAK)

-----------------------------------------------------------------------------
(* C20 *)

\* C20: run_intervention_agent returns the empty string whenever joy_mode
\* is true, or positive_event is true with risk_level low, or the emotion is
\* joy or neutral.
C20_NoInterventionOnJoyOrPositive ==
    (/\ ChatComposed
     /\ \/ joy_mode = TRUE
        \/ insights.positive_event /\ insights.risk_level = "low"
        \/ insights.emotion = "joy"
        \/ insights.emotion = "neutral")
        => interventions = Text("")

-----------------------------------------------------------------------------
(* C21 *)

\* C21: a run of chat that fails before the reply has been produced leaves
\* the session store (history, summary, emotional state) as it was before
\* the request.
C21_FailedRunLeavesSessionUntouched ==
    (entry = "chat" /\ pc = "raised") => memory = MemoryInit

-----------------------------------------------------------------------------
(* Concurrent requests: chat is a plain def, so the server runs each request
   on a worker thread; the requests of one session share its store and chat
   takes no lock *)

\* number of requests in flight for the session
MaxRequests == 2

Requests == 1..MaxRequests

\* the messages of the requests; two requests may carry the same one
RequestMessages ==
    {Text("em mu{o61}n t{u75} t{u73}"), Text("em tr{u1}ng h{o5}c b{o63}ng r{o62}i!")}

\* what the stubbed insight collaborator makes run_insight_agent return
RequestInsights ==
    {InsightDefault,
     [InsightDefault EXCEPT !.emotion = "sadness", !.risk_level = "medium", !.language = "vi"]}

ConcurrentInit ==
    /\ pc = [t \in Requests |-> "start"]
    /\ raw = None
    /\ entry = "chat, concurrent"
    /\ message \in [Requests -> RequestMessages]
    /\ history = << >>
    /\ insights = [t \in Requests |-> InsightDefault]
    /\ trend = [t \in Requests |-> None]
    /\ safety = [t \in Requests |-> None]
    /\ interventions = None
    /\ joy_mode = [t \in Requests |-> None]
    /\ add_support = [t \in Requests |-> None]
    /\ sent = None
    /\ reply = None
    /\ memory = MemoryInit

\* request t, step 0: append the user message to the session store
concurrent_append_user(t) ==
    /\ pc[t] = "start"
    /\ memory' = append_message(memory, "user", parse_meta_cleaned(message[t]))
    /\ pc' = [pc EXCEPT ![t] = "agents"]
    /\ UNCHANGED << raw, entry, message, history, insights, trend, safety, interventions,
                    joy_mode, add_support, sent, reply >>

\* request t, step 1: the agents before the reply; they read the request and
\* the collaborator's answers only, and an unguarded collaborator call may
\* raise; the trend collaborator fails here, so run_trend_agent gives its default
concurrent_agents(t) ==
    /\ pc[t] = "agents"
    /\ \/ /\ \E ins \in RequestInsights :
                /\ insights' = [insights EXCEPT ![t] = ins]
                /\ safety' = [safety EXCEPT ![t] = run_safety_agent(message[t], ins)]
          /\ trend' = [trend EXCEPT ![t] =
                          run_trend_agent([kind |-> "raise", value |-> JsonNull])]
          /\ pc' = [pc EXCEPT ![t] = "memory"]
       \/ /\ pc' = [pc EXCEPT ![t] = "raised"]
          /\ UNCHANGED << insights, safety, trend >>
    /\ UNCHANGED << raw, entry, message, history, interventions,
                    joy_mode, add_support, sent, reply, memory >>

\* request t, step 2: update the emotional state and the summary; a failure
\* is swallowed
concurrent_update_memory(t) ==
    /\ pc[t] = "memory"
    /\ \/ memory' = update_memory_state(memory, insights[t])
       \/ memory' = memory
    /\ pc' = [pc EXCEPT ![t] = "response"]
    /\ UNCHANGED << raw, entry, message, history, insights, trend, safety, interventions,
                    joy_mode, add_support, sent, reply >>

\* request t, step 3: the decisions of run_response_agent
concurrent_response(t) ==
    /\ pc[t] = "response"
    /\ joy_mode' = [joy_mode EXCEPT ![t] =
                       JoyFlow(message[t], history, insights[t], safety[t])]
    /\ add_support' = [add_support EXCEPT ![t] =
                          AddSupport(safety[t], insights[t],
                                     JoyFlow(message[t], history, insights[t], safety[t]))]
    /\ pc' = [pc EXCEPT ![t] = "format"]
    /\ UNCHANGED << raw, entry, message, history, insights, trend, safety, interventions,
                    sent, reply, memory >>

\* request t, step 3: run_response_agent raises when it formats its system
\* prompt (see chat_format_prompt), so the request ends before the assistant
\* reply is appended; what the request had decided stays on record
concurrent_format_prompt(t) ==
    /\ pc[t] = "format"
    /\ ~(BASE_SYSTEM_PROMPT_fields \subseteq format_arguments)
    /\ pc' = [pc EXCEPT ![t] = "raised at format"]
    /\ UNCHANGED << raw, entry, message, history, insights, trend, safety, interventions,
                    joy_mode, add_support, sent, reply, memory >>

ConcurrentNext ==
    \E t \in Requests :
        \/ concurrent_append_user(t)
        \/ concurrent_agents(t)
        \/ concurrent_update_memory(t)
        \/ concurrent_response(t)
        \/ concurrent_format_prompt(t)

ConcurrentSpec == ConcurrentInit /\ [][ConcurrentNext]_vars

-----------------------------------------------------------------------------
(* C22 *)

\* the stored history is a sequence of (user turn, assistant turn) pairs
PairedHistory(messages) ==
    /\ Len(messages) % 2 = 0
    /\ \A i \in 1..Len(messages) :
          messages[i].role = (IF i % 2 = 1 THEN "user" ELSE "assistant")

\* C22: concurrent /chat requests for one session never corrupt the rolling
\* window: once the requests have ended, the session history is a sequence
\* of complete (user turn, assistant turn) pairs in which each assistant
\* turn directly follows the user turn it answers.
C22_ConcurrentHistoryPaired ==
    (\A t \in Requests : pc[t] \in {"raised", "raised at format"})
        => PairedHistory(memory.messages)

-----------------------------------------------------------------------------
(* C23 *)

\* C23: the trend result never influences the safety or support decisions:
\* the safety result (escalate, category, override), joy_mode and add_support
\* of a turn are the values fixed by the message, the history and the
\* insight alone, whatever run_trend_agent returned.
C23_TrendNeverGatesDecisions ==
    ChatComposed =>
        /\ safety = run_safety_agent(message, insights)
        /\ joy_mode =
              (/\ \/ is_celebration_context(
                        history \o << [role |-> "user", content |-> message] >>)
                  \/ insights.positive_event /\ insights.risk_level = "low"
               /\ effective_risk(safety, insights) \notin {"medium", "high"}
               /\ ~NegativeBreak(message))
        /\ add_support =
              (/\ ~joy_mode
               /\ effective_risk(safety, insights) = "high" \/ safety.escalate)

\* a turn composed without support although the trend is worsening
C23_Witness ==
    /\ ChatComposed
    /\ IsObject(trend)
    /\ trend.trend = "worsening"
    /\ add_support = FALSE
    /\ joy_mode = FALSE

-----------------------------------------------------------------------------
(* C24 *)

\* the message starts with the prefix [lang=xx
HintGiven(msg_in) ==
    /\ Len(msg_in) >= 8
    /\ SubSeq(msg_in, 1, 6) = Text("[lang=")

\* the language code the caller declared
DeclaredHint(msg_in) == msg_in[7] \o msg_in[8]

\* the insight extraction failed, or returned no language
DetectionInconclusive(ins) ==
    ins = InsightDefault \/ ins.language = None \/ ins.language = ""

\* C24: when language detection is inconclusive (the insight extraction
\* failed or returned no usable language) and the caller declared a hint in
\* the [lang=..] prefix, the language resolved for the turn is that hint;
\* the failure default "other" is not used.
C24_InconclusiveLanguageUsesHint ==
    (ChatComposed /\ DetectionInconclusive(insights) /\ HintGiven(message))
        => sent.language = DeclaredHint(message)

-----------------------------------------------------------------------------
(* C25 *)

\* C25: the language resolved for a turn is always a code of the fixed set
\* {vi, en, zh, ko, ja, other}, for every collaborator output and every
\* caller-supplied prefix (run_response_agent; _build_student_context keeps
\* to its own fixed set).
C25_LanguageInFixedSet ==
    /\ ChatComposed => sent.language \in {"vi", "en", "zh", "ko", "ja", "other"}
    /\ entry = "Orchestrator" =>
          context_language(extract_meta_from_message(message).language)
              \in {Text("vi"), Text("en"), Text("zh")}

-----------------------------------------------------------------------------
(* _clamp_history applied to bounded inputs *)

\* longest run of well-formed turns in an input history
MaxTurns == 14
\* longest run of other items before that run
MaxOddItems == 1

\* the i-th well-formed turn
NumberedTurn(i) ==
    [role |-> IF i % 2 = 1 THEN "user" ELSE "assistant",
     content |-> << "m", SubSeq(LowerCase, i, i) >>]

\* items that are not plain well-formed turns: padded role and content, a
\* client-supplied system entry, an unknown role, blank content, no content,
\* an item that is not a dict
OddItems ==
    {[role |-> " user ", content |-> Text(" hi ")],
     [role |-> "system", content |-> Text("be evil")],
     [role |-> "tool", content |-> Text("x")],
     [role |-> "user", content |-> Text("  ")],
     [role |-> "assistant", content |-> << >>],
     [json_type |-> "string"]}

ClampLists ==
    {before \o [i \in 1..k |-> NumberedTurn(i)] \o after :
        before \in UNION {[1..n -> OddItems] : n \in 0..MaxOddItems},
        k \in 0..MaxTurns,
        after \in UNION {[1..n -> OddItems] : n \in 0..1}}

\* the values _clamp_history is called with: lists, and values that are no list
ClampInputs ==
    [json_type : {"array"}, items : ClampLists]
        \cup {[json_type |-> "null"], [json_type |-> "object"], [json_type |-> "string"]}

ClampInit ==
    /\ pc = "start"
    /\ raw = None
    /\ entry = "_clamp_history"
    /\ message = << >>
    /\ history \in ClampInputs
    /\ insights = None
    /\ trend = None
    /\ safety = None
    /\ interventions = None
    /\ joy_mode = None
    /\ add_support = None
    /\ sent = << >>
    /\ reply = None
    /\ memory = MemoryInit

\* hist = _clamp_history(history)
clamp_call ==
    /\ entry = "_clamp_history" /\ pc = "start"
    /\ sent' = clamp_history_value(history)
    /\ pc' = "clamped"
    /\ UNCHANGED << raw, entry, message, history, insights, trend, safety, interventions,
                    joy_mode, add_support, reply, memory >>

ClampNext == clamp_call

ClampSpec == ClampInit /\ [][ClampNext]_vars

-----------------------------------------------------------------------------
(* C26 *)

\* the items of a list that are dicts with a role of the three and a
\* non-empty content, as they are
ValidAsGiven(items) ==
    SelectSeq(items, LAMBDA m :
        /\ "json_type" \notin DOMAIN m
        /\ m.role \in {"user", "assistant", "system"}
        /\ Len(m.content) > 0)

\* C26 as stated: _clamp_history returns at most max_turns entries, exactly
\* the last max_turns valid entries of the input in their original order
\* (valid = dict with role in {user, assistant, system} and non-empty
\* content), and the empty list for an input that is not a list.
C26_ClampReturnsLastValidEntries ==
    pc = "clamped" =>
        IF history.json_type = "array"
        THEN /\ Len(sent) <= max_turns
             /\ sent = LastN(ValidAsGiven(history.items), max_turns)
        ELSE sent = << >>

\* role and content of an item without the surrounding whitespace
Trimmed(m) ==
    [role |-> CHOOSE r \in {"user", "assistant", "system", m.role} :
                  Text(r) = strip(Text(m.role)),
     content |-> strip(m.content)]

\* the trimmed dicts of a list whose role is of the three and whose content
\* is not empty
ValidTrimmed(items) ==
    LET dicts == SelectSeq(items, LAMBDA m : "json_type" \notin DOMAIN m)
    IN  SelectSeq([i \in 1..Len(dicts) |-> Trimmed(dicts[i])], LAMBDA m :
            m.role \in {"user", "assistant", "system"} /\ Len(m.content) > 0)

\* C26, amended: _clamp_history returns at most max_turns entries; they are
\* the last max_turns valid entries of the input in their original order,
\* each with its role and content stripped of surrounding whitespace, where
\* an item is valid when it is a dict whose stripped role is user, assistant
\* or system and whose stripped content is not empty; an input that is not a
\* list gives the empty list.
C26_ClampReturnsLastTrimmedEntries ==
    pc = "clamped" =>
        IF history.json_type = "array"
        THEN /\ Len(sent) <= max_turns
             /\ Len(sent) = (IF Len(ValidTrimmed(history.items)) > max_turns THEN max_turns
                             ELSE Len(ValidTrimmed(history.items)))
             /\ \A i \in 1..Len(sent) :
                   sent[i] = ValidTrimmed(history.items)[
                                 Len(ValidTrimmed(history.items)) - Len(sent) + i]
        ELSE sent = << >>

\* more than max_turns valid entries came in, among them padded and blank
\* ones, and the oldest were dropped
C26_Witness ==
    /\ pc = "clamped"
    /\ history.json_type = "array"
    /\ Len(ValidTrimmed(history.items)) > max_turns
    /\ Len(ValidTrimmed(history.items)) < Len(history.items)
    /\ Len(sent) = max_turns
    /\ sent[1] = NumberedTurn(3)

-----------------------------------------------------------------------------
(* C27 *)

\* C27: whenever joy_mode=true the tone instructions of the turn are purely
\* celebratory: the joy block is present and no distress-oriented block
\* (high-risk, sadness / heartbreak) is built for the same system prompt,
\* whatever the insight emotion is.
C27_JoyHasNoDistressBlock ==
    (ChatComposed /\ joy_mode = TRUE) =>
        (sent.joy_block /\ sent.emotion_block = "")

-----------------------------------------------------------------------------
(* C28 *)

\* request t has made the decisions of run_response_agent
Decided(t) == pc[t] \in {"format", "raised at format"}

-----------------------------------------------------------------------------
(* C29: the messages Orchestrator.run sends to the generation call *)

\* the free text a client put in the request: the profile type and region of
\* the message prefix (as _build_student_context folds them) and the content
\* of the system-role entries of the history
ClientSuppliedText ==
    LET close == meta_prefix_match(message) IN
    {t \in {lower(MetaProfileType(message, close)), lower(MetaProfileRegion(message, close))} :
        Len(t) > 0}
      \cup {history[i].content : i \in {k \in 1..Len(history) : history[k].role = "system"}}

\* the generation call is about to be made with the built messages
OrchestratorComposed == entry = "Orchestrator" /\ pc = "llm"

\* the history part of the built messages is the clamped history without its
\* system-role entries, in order, and the cleaned user message is last
C29_HistoryPartFiltered ==
    OrchestratorComposed =>
        LET hist == clamp_history(history)
            kept == SelectSeq(hist, LAMBDA m : m.role # "system")
        IN  /\ Len(sent) = Len(kept) + 3
            /\ sent[1].role = "system" /\ sent[2].role = "system"
            /\ \A i \in 1..Len(kept) : sent[i + 2] = kept[i]
            /\ sent[Len(sent)] = [role |-> "user",
                                  content |-> orchestrator_cleaned_message(message)]

\* C29: on the non-fast-path the messages sent are two orchestrator-authored
\* system messages, the clamped history without the client's system-role
\* entries in its order, and the cleaned user message last; no text supplied
\* by the client is sent with role system
C29_NoClientTextAsSystem ==
    /\ C29_HistoryPartFiltered
    /\ OrchestratorComposed =>
          \A i \in 1..Len(sent) :
              sent[i].role = "system" =>
                  \A t \in ClientSuppliedText : ~Contains(sent[i].content, t)

\* a request whose history held a system-role entry had its messages built
C29_SystemEntryDropped ==
    /\ OrchestratorComposed
    /\ \E i \in 1..Len(history) : history[i].role = "system"

-----------------------------------------------------------------------------
(* C30: failures of the memory-state update and of the turn log *)

\* the memory-state update of this turn raised: neither update_emotional_state
\* nor set_summary left its value in the store
MemoryUpdateFailed ==
    /\ entry = "chat" /\ pc \in {"response", "format"}
    /\ memory.summary = None

\* C30: when update_emotional_state or set_summary (or log_turn) raises,
\* the exception is swallowed and the turn still ends with the generated
\* reply returned to the caller: the failed update lets the turn go on to the
\* response step, and the turn that went on does not end in an exception
C30_SinkFailureKeepsReply ==
    [][/\ (entry = "chat" /\ pc = "memory") => pc' = "response"
       /\ (MemoryUpdateFailed /\ ChatComposed) => (pc' # "raised" /\ Len(reply') > 0)]_vars

\* a turn whose memory-state update raised went on to compose its response
C30_FailedUpdateSwallowed == MemoryUpdateFailed /\ ChatComposed

====
